---- MODULE Spec2Model ----
(***************************************************************************)
(* A model of the simulation core of wasm_game: the player state machine   *)
(* (src/src/player.rs), the scripted bullets and enemies and the per-tick  *)
(* orchestration of Level (src/src/level.rs) and the fixed-step game loop  *)
(* (src/src/engine.rs).                                                    *)
(*                                                                         *)
(* Units.  The program computes positions and velocities in f32 pixels.    *)
(* The model is fixed point: one unit is 1/1000 pixel, so 300.0 is 300000  *)
(* and the speed 6.0 * 0.71 * 0.6 = 2.556 is 2556.  f32 rounding is not    *)
(* modelled.  Frame counters keep their widths (u8 for the player, u16 for *)
(* bullets and enemies).                                                   *)
(***************************************************************************)
EXTENDS Integers, Sequences, FiniteSets, TLC

VARIABLES
    state_machine,      \* Player.state_machine: [tag, frame, x, y, vx, vy]
    lastEvent,          \* the PlayerEvent delivered last (ty = "" before the first)
    since,              \* Update stimuli received since the current tag was entered
    enemies,            \* Level.enemies
    bullets,            \* Level.bullets
    culled,             \* the bullets that the last Level::update removed
    panicked,           \* an arithmetic overflow check has aborted the program
    collided,           \* the result of the last collision test ("untested" before it)
    keystate,           \* KeyState.pressed_keys: the codes of the keys held
    last_frame,         \* GameLoop.last_frame
    accumulated_delta,  \* GameLoop.accumulated_delta
    frame_delta,        \* perf - last_frame of the last frame callback
    calls               \* the calls the last frame callback made on the game, in order

playerHistory == <<lastEvent, since>>

levelVars == <<enemies, bullets, culled, panicked, collided>>

loopVars == <<keystate, last_frame, accumulated_delta, frame_delta, calls>>

vars == <<state_machine, lastEvent, since, enemies, bullets, culled, panicked, collided,
          keystate, last_frame, accumulated_delta, frame_delta, calls>>

(***************************************************************************)
(* player.rs: constants of mod player_states                               *)
(***************************************************************************)
FLOOR == 475000

NORMAL_LOOP == 30

RELOAD_TIME == 120

BOMB_TIME == 60

\* The four clamp limits of PlayerContext::update (50.0, 550.0, 30.0, 570.0).
PLAYER_X_MIN == 50000

PLAYER_X_MAX == 550000

PLAYER_Y_MIN == 30000

PLAYER_Y_MAX == 570000

\* The speed 6.0 of Player::calc_velocity.
PLAYER_SPEED == 6000

\* The radius 10.0 that Player::is_collided passes for a bullet.
BULLET_RADIUS == 10000

\* The 3.0 that PlayerContext::is_collided adds to the radius.
PLAYER_RADIUS == 3000

(***************************************************************************)
(* Bounds of the model                                                     *)
(***************************************************************************)
\* The history counter `since` saturates here (it only matters below RELOAD_TIME).
MaxSince == 130

(***************************************************************************)
(* player.rs: PlayerContext                                                *)
(***************************************************************************)
\* Mutant of PlayerContext::update: the clamp at the right wall is missing.
PlayerContext_update_no_right_clamp(ctx, frame_count) ==
    LET f  == IF ctx.frame < frame_count THEN (ctx.frame + 1) % 256 ELSE 0
        x0 == ctx.x + ctx.vx
        y0 == ctx.y + ctx.vy
        x1 == IF x0 < PLAYER_X_MIN THEN PLAYER_X_MIN ELSE x0
        y1 == IF y0 < PLAYER_Y_MIN THEN PLAYER_Y_MIN ELSE y0
        y2 == IF y1 > PLAYER_Y_MAX THEN PLAYER_Y_MAX ELSE y1
    IN  [ctx EXCEPT !.frame = f, !.x = x1, !.y = y2]

\* PlayerContext::update: advance the frame (wrapping to 0 once it has reached
\* frame_count), integrate the position and clamp it to the play field.
PlayerContext_update(ctx, frame_count) ==
    LET f  == IF ctx.frame < frame_count THEN (ctx.frame + 1) % 256 ELSE 0
        x0 == ctx.x + ctx.vx
        y0 == ctx.y + ctx.vy
        x1 == IF x0 < PLAYER_X_MIN THEN PLAYER_X_MIN ELSE x0
        x2 == IF x1 > PLAYER_X_MAX THEN PLAYER_X_MAX ELSE x1
        y1 == IF y0 < PLAYER_Y_MIN THEN PLAYER_Y_MIN ELSE y0
        y2 == IF y1 > PLAYER_Y_MAX THEN PLAYER_Y_MAX ELSE y1
    IN  [ctx EXCEPT !.frame = f, !.x = x2, !.y = y2]

\* PlayerContext::reset_frame
reset_frame(ctx) == [ctx EXCEPT !.frame = 0]

\* PlayerState<S>::set_velocity
PlayerState_set_velocity(state, vx, vy) == [state EXCEPT !.vx = vx, !.vy = vy]

\* PlayerState<Alive>::new
PlayerState_new ==
    [tag |-> "Alive", frame |-> 0, x |-> 300000, y |-> FLOOR, vx |-> 0, vy |-> 0]

\* Mutant of PlayerState<Alive>::bomb: the frame is not reset.
Alive_bomb_keeps_frame(state) == [state EXCEPT !.tag = "Bombing"]

\* PlayerState<Alive>::bomb
Alive_bomb(state) == [reset_frame(state) EXCEPT !.tag = "Bombing"]

\* PlayerState<Alive>::hit
Alive_hit(state) == [reset_frame(state) EXCEPT !.tag = "Reloading"]

\* PlayerState<Alive>::update
Alive_update(state) == PlayerContext_update(state, NORMAL_LOOP)

\* PlayerState<Bombing>::end_bomb
end_bomb(state) == [reset_frame(state) EXCEPT !.tag = "Alive"]

\* Mutant of PlayerState<Bombing>::update: > instead of >=.
Bombing_update_strict(state) ==
    LET s == PlayerContext_update(state, BOMB_TIME)
    IN  IF s.frame > BOMB_TIME THEN end_bomb(s) ELSE s

\* PlayerState<Bombing>::update (with From<BombingEndState>)
Bombing_update(state) ==
    LET s == PlayerContext_update(state, BOMB_TIME)
    IN  IF s.frame >= BOMB_TIME THEN end_bomb(s) ELSE s

\* PlayerState<Reloading>::end_reload
end_reload(state) == [reset_frame(state) EXCEPT !.tag = "Alive"]

\* Mutant of PlayerState<Reloading>::update: the position is frozen, only the
\* frame advances.
Reloading_update_frozen(state) ==
    LET s == [state EXCEPT !.frame = IF state.frame < RELOAD_TIME
                                     THEN (state.frame + 1) % 256 ELSE 0]
    IN  IF s.frame >= RELOAD_TIME THEN end_reload(s) ELSE s

\* Mutant of PlayerState<Reloading>::update: > instead of >=.
Reloading_update_strict(state) ==
    LET s == PlayerContext_update(state, RELOAD_TIME)
    IN  IF s.frame > RELOAD_TIME THEN end_reload(s) ELSE s

\* PlayerState<Reloading>::update (with From<ReloadEndState>)
Reloading_update(state) ==
    LET s == PlayerContext_update(state, RELOAD_TIME)
    IN  IF s.frame >= RELOAD_TIME THEN end_reload(s) ELSE s

(***************************************************************************)
(* player.rs: PlayerEvent and PlayerStateMachine                           *)
(***************************************************************************)
Bomb == [ty |-> "Bomb", vx |-> 0, vy |-> 0]

Hit == [ty |-> "Hit", vx |-> 0, vy |-> 0]

Update == [ty |-> "Update", vx |-> 0, vy |-> 0]

Move(vx, vy) == [ty |-> "Move", vx |-> vx, vy |-> vy]

\* Mutant of transition: a Hit while Reloading restarts the reload.
transition_hit_restarts(self, event) ==
    CASE self.tag = "Alive" /\ event.ty = "Move" ->
            PlayerState_set_velocity(self, event.vx, event.vy)
      [] self.tag = "Bombing" /\ event.ty = "Move" ->
            PlayerState_set_velocity(self, event.vx, event.vy)
      [] self.tag = "Alive" /\ event.ty = "Bomb" -> Alive_bomb(self)
      [] self.tag \in {"Alive", "Reloading"} /\ event.ty = "Hit" -> Alive_hit(self)
      [] self.tag = "Alive" /\ event.ty = "Update" -> Alive_update(self)
      [] self.tag = "Bombing" /\ event.ty = "Update" -> Bombing_update(self)
      [] self.tag = "Reloading" /\ event.ty = "Update" -> Reloading_update(self)
      [] OTHER -> self

\* Mutant of transition: Move is accepted in every state.
transition_move_always(self, event) ==
    CASE event.ty = "Move" -> PlayerState_set_velocity(self, event.vx, event.vy)
      [] self.tag = "Alive" /\ event.ty = "Bomb" -> Alive_bomb(self)
      [] self.tag = "Alive" /\ event.ty = "Hit" -> Alive_hit(self)
      [] self.tag = "Alive" /\ event.ty = "Update" -> Alive_update(self)
      [] self.tag = "Bombing" /\ event.ty = "Update" -> Bombing_update(self)
      [] self.tag = "Reloading" /\ event.ty = "Update" -> Reloading_update(self)
      [] OTHER -> self

\* Mutant of transition: a Hit while Reloading ends the reload.
transition_hit_ends_reload(self, event) ==
    CASE self.tag = "Alive" /\ event.ty = "Move" ->
            PlayerState_set_velocity(self, event.vx, event.vy)
      [] self.tag = "Bombing" /\ event.ty = "Move" ->
            PlayerState_set_velocity(self, event.vx, event.vy)
      [] self.tag = "Alive" /\ event.ty = "Bomb" -> Alive_bomb(self)
      [] self.tag = "Alive" /\ event.ty = "Hit" -> Alive_hit(self)
      [] self.tag = "Reloading" /\ event.ty = "Hit" -> end_reload(self)
      [] self.tag = "Alive" /\ event.ty = "Update" -> Alive_update(self)
      [] self.tag = "Bombing" /\ event.ty = "Update" -> Bombing_update(self)
      [] self.tag = "Reloading" /\ event.ty = "Update" -> Reloading_update(self)
      [] OTHER -> self

\* Mutant of transition: a Hit is accepted while Bombing too.
transition_hit_while_bombing(self, event) ==
    CASE self.tag = "Alive" /\ event.ty = "Move" ->
            PlayerState_set_velocity(self, event.vx, event.vy)
      [] self.tag = "Bombing" /\ event.ty = "Move" ->
            PlayerState_set_velocity(self, event.vx, event.vy)
      [] self.tag = "Alive" /\ event.ty = "Bomb" -> Alive_bomb(self)
      [] self.tag \in {"Alive", "Bombing"} /\ event.ty = "Hit" -> Alive_hit(self)
      [] self.tag = "Alive" /\ event.ty = "Update" -> Alive_update(self)
      [] self.tag = "Bombing" /\ event.ty = "Update" -> Bombing_update(self)
      [] self.tag = "Reloading" /\ event.ty = "Update" -> Reloading_update(self)
      [] OTHER -> self

\* PlayerStateMachine::transition: the match on (state, event), arm by arm.
transition(self, event) ==
    CASE self.tag = "Alive" /\ event.ty = "Move" ->
            PlayerState_set_velocity(self, event.vx, event.vy)
      [] self.tag = "Bombing" /\ event.ty = "Move" ->
            PlayerState_set_velocity(self, event.vx, event.vy)
      [] self.tag = "Alive" /\ event.ty = "Bomb" -> Alive_bomb(self)
      [] self.tag = "Alive" /\ event.ty = "Hit" -> Alive_hit(self)
      [] self.tag = "Alive" /\ event.ty = "Update" -> Alive_update(self)
      [] self.tag = "Bombing" /\ event.ty = "Update" -> Bombing_update(self)
      [] self.tag = "Reloading" /\ event.ty = "Update" -> Reloading_update(self)
      [] OTHER -> self

(***************************************************************************)
(* player.rs: Player                                                       *)
(***************************************************************************)
\* Player::new
Player_new == PlayerState_new

\* Player::update: the Update stimulus first, then Move(vx, vy).
Player_update(sm, vx, vy) == transition(transition(sm, Update), Move(vx, vy))

\* Player::bomb
Player_bomb(sm) == transition(sm, Bomb)

\* Player::hit
Player_hit(sm) == transition(sm, Hit)

\* Player::calc_velocity over a key snapshot (the set of pressed key codes).
\* 0.71 and 0.6 are the factors 71/100 and 6/10.
calc_velocity(keys) ==
    LET w == "KeyW" \in keys
        a == "KeyA" \in keys
        s == "KeyS" \in keys
        d == "KeyD" \in keys
        slow_factor == IF "KeyK" \in keys THEN 6 ELSE 10
        x_direction == IF a = d THEN 0 ELSE IF a THEN -1 ELSE 1
        y_direction == IF w = s THEN 0 ELSE IF w THEN -1 ELSE 1
        diag_factor == IF x_direction # 0 /\ y_direction # 0 THEN 71 ELSE 100
    IN  <<(PLAYER_SPEED * x_direction * diag_factor * slow_factor) \div 1000,
          (PLAYER_SPEED * y_direction * diag_factor * slow_factor) \div 1000>>

\* Mutant of PlayerContext::is_collided: <= instead of <.
PlayerContext_is_collided_inclusive(ctx, point, radius) ==
    LET dx == point.x - ctx.x
        dy == point.y - ctx.y
        r  == radius + PLAYER_RADIUS
        Abs(n) == IF n < 0 THEN -n ELSE n
    IN  IF point.nan \/ Abs(dx) > r \/ Abs(dy) > r
        THEN FALSE
        ELSE dx * dx + dy * dy <= r * r

\* PlayerContext::is_collided (false for a NaN point).  The squares are taken only when both offsets are
\* below r: a larger offset already decides the comparison, and the products stay
\* inside the checker's integers.
PlayerContext_is_collided(ctx, point, radius) ==
    LET dx == point.x - ctx.x
        dy == point.y - ctx.y
        r  == radius + PLAYER_RADIUS
        Abs(n) == IF n < 0 THEN -n ELSE n
    IN  IF point.nan \/ Abs(dx) >= r \/ Abs(dy) >= r
        THEN FALSE
        ELSE dx * dx + dy * dy < r * r

\* Player::is_collided: the bullet's position against the player's context.
Player_is_collided(sm, bullet) ==
    PlayerContext_is_collided(sm, [x |-> bullet.x, y |-> bullet.y, nan |-> bullet.nan],
                              BULLET_RADIUS)

(***************************************************************************)
(* math.rs: Vector                                                         *)
(***************************************************************************)
\* n / d rounded to the nearest integer (d > 0).
Round(n, d) == (2 * n + d) \div (2 * d)

\* 1000 * sin(deg) for the angles the scripts use (multiples of 15 degrees).
Sin1000(deg) ==
    LET d == deg % 360
        q == CASE d <= 90 -> d
               [] d <= 180 -> 180 - d
               [] d <= 270 -> d - 180
               [] OTHER -> 360 - d
        v == CASE q = 0 -> 0
               [] q = 15 -> 259
               [] q = 30 -> 500
               [] q = 45 -> 707
               [] q = 60 -> 866
               [] q = 75 -> 966
               [] q = 90 -> 1000
    IN  IF d <= 180 THEN v ELSE -v

\* 1000 * cos(deg)
Cos1000(deg) == Sin1000(deg + 90)

\* Vector::rotate: the rotation matrix applied to (x, y), deg in degrees.
Vector_rotate(x, y, deg) ==
    <<Round(x * Cos1000(deg) - y * Sin1000(deg), 1000),
      Round(x * Sin1000(deg) + y * Cos1000(deg), 1000)>>

\* Vector::from_deg_and_mag (called by Enemy::update): the vector of length mag
\* at heading deg.
Vector_from_deg_and_mag(deg, mag) ==
    <<Round(mag * Cos1000(deg), 1000), Round(mag * Sin1000(deg), 1000)>>

(***************************************************************************)
(* level.rs: Bullet                                                        *)
(***************************************************************************)
\* Option<usize>: None is the empty tuple, Some(i) the tuple <<i>> (i from 0).
None == <<>>

Some(i) == <<i>>

\* Bullet::new.  vnan (nan) marks a bullet whose f32 velocity (position) is NaN,
\* in which case the numbers held for it mean nothing; log records <<event index, frame>> each time an event of the script is applied.
Bullet_new(x, y, vx, vy, ax, ay, events) ==
    [frame |-> 0, x |-> x, y |-> y, vx |-> vx, vy |-> vy, ax |-> ax, ay |-> ay,
     events |-> events,
     next_event |-> IF events = <<>> THEN None ELSE Some(0),
     vnan |-> FALSE, nan |-> FALSE, log |-> <<>>]

\* The three BulletEventType variants.
RotateVel(at, deg) == [at |-> at, ty |-> "RotateVel", deg |-> deg, vx |-> 0, vy |-> 0]

SetVel(at, vx, vy) == [at |-> at, ty |-> "SetVel", deg |-> 0, vx |-> vx, vy |-> vy]

SetAcc(at, ax, ay) == [at |-> at, ty |-> "SetAcc", deg |-> 0, vx |-> ax, vy |-> ay]

\* The match on event.event_ty of Bullet::update.
Bullet_apply(b, event) ==
    CASE event.ty = "RotateVel" ->
            LET v == Vector_rotate(b.vx, b.vy, event.deg)
            IN  [b EXCEPT !.vx = v[1], !.vy = v[2]]
      [] event.ty = "SetVel" ->
            [b EXCEPT !.vx = event.vx, !.vy = event.vy, !.vnan = FALSE]
      [] event.ty = "SetAcc" -> [b EXCEPT !.ax = event.vx, !.ay = event.vy]

\* Mutant of Bullet::update: the trigger tick is compared with the frame before
\* its increment.
Bullet_update_stale_frame(self) ==
    LET frame == (self.frame + 1) % 65536
        vx == self.vx + self.ax
        vy == self.vy + self.ay
        moved == [self EXCEPT !.frame = frame, !.vx = vx, !.vy = vy,
                              !.x = self.x + vx, !.y = self.y + vy,
                              !.nan = self.nan \/ self.vnan]
    IN  IF self.next_event = None
        THEN moved
        ELSE LET next_event == self.next_event[1]
                 event == self.events[next_event + 1]
             IN  IF event.at # self.frame
                 THEN moved
                 ELSE [Bullet_apply(moved, event) EXCEPT
                         !.log = Append(@, <<next_event, frame>>),
                         !.next_event =
                             IF next_event = Len(self.events) - 1
                             THEN None
                             ELSE Some(next_event + 1)]

\* Mutant of Bullet::update: the event of the tick is applied before the
\* velocity and the position are advanced.
Bullet_update_event_first(self) ==
    LET frame == (self.frame + 1) % 65536
        fires == self.next_event # None /\ self.events[self.next_event[1] + 1].at = frame
        base  == IF fires
                 THEN [Bullet_apply(self, self.events[self.next_event[1] + 1]) EXCEPT
                         !.log = Append(@, <<self.next_event[1], frame>>),
                         !.next_event =
                             IF self.next_event[1] = Len(self.events) - 1
                             THEN None
                             ELSE Some(self.next_event[1] + 1)]
                 ELSE self
        vx == base.vx + base.ax
        vy == base.vy + base.ay
    IN  [base EXCEPT !.frame = frame, !.vx = vx, !.vy = vy,
                     !.x = base.x + vx, !.y = base.y + vy,
                     !.nan = base.nan \/ base.vnan]

\* Bullet::update.  frame is a u16: the increment wraps (a build with overflow
\* checks panics instead, see BulletUpdate).
Bullet_update(self) ==
    LET frame == (self.frame + 1) % 65536
        vx == self.vx + self.ax
        vy == self.vy + self.ay
        moved == [self EXCEPT !.frame = frame, !.vx = vx, !.vy = vy,
                              !.x = self.x + vx, !.y = self.y + vy,
                              !.nan = self.nan \/ self.vnan]
    IN  IF self.next_event = None
        THEN moved
        ELSE LET next_event == self.next_event[1]
                 event == self.events[next_event + 1]
             IN  IF event.at # frame
                 THEN moved
                 ELSE [Bullet_apply(moved, event) EXCEPT
                         !.log = Append(@, <<next_event, frame>>),
                         !.next_event =
                             IF next_event = Len(self.events) - 1
                             THEN None
                             ELSE Some(next_event + 1)]

\* Mutant of Bullet::in_canvas: the right and lower bounds are exclusive.
Bullet_in_canvas_exclusive(self) ==
    /\ ~self.nan
    /\ self.x < 550000 /\ self.x >= 50000
    /\ self.y < 570000 /\ self.y >= 30000

\* Bullet::in_canvas (every comparison with a NaN position is false).
Bullet_in_canvas(self) ==
    /\ ~self.nan
    /\ self.x <= 550000 /\ self.x >= 50000
    /\ self.y <= 570000 /\ self.y >= 30000

(***************************************************************************)
(* level.rs: Enemy                                                         *)
(***************************************************************************)
\* Enemy::new
Enemy_new(x, y, vx, vy, events) ==
    [frame |-> 0, x |-> x, y |-> y, vx |-> vx, vy |-> vy,
     events |-> events,
     next_event |-> IF events = <<>> THEN None ELSE Some(0),
     log |-> <<>>]

\* The two EnemyEventType variants.
Nways(at, n, wide_deg, center_deg) ==
    [at |-> at, ty |-> "Nways", n |-> n, wide_deg |-> wide_deg, center_deg |-> center_deg]

AimShot(at) == [at |-> at, ty |-> "AimShot", n |-> 0, wide_deg |-> 0, center_deg |-> 0]

\* The largest r with r * r <= n.
Isqrt(n) == CHOOSE r \in 0..1000 : r * r <= n /\ n < (r + 1) * (r + 1)

\* Player::get_aim_rad followed by Vector::from_deg_and_mag(deg, 1.0): the unit
\* vector from pos towards the player (offsets taken in whole pixels).
AimVelocity(sm, pos) ==
    LET dx == (sm.x - pos.x) \div 1000
        dy == (sm.y - pos.y) \div 1000
        d  == Isqrt(dx * dx + dy * dy)
    IN  IF d = 0 THEN <<1000, 0>> ELSE <<Round(1000 * dx, d), Round(1000 * dy, d)>>

\* The bullet Enemy::update pushes for one heading of an Nways event.
NwayBullet(self, deg, mag) ==
    LET v == Vector_from_deg_and_mag(deg, mag)
    IN  Bullet_new(self.x, self.y, v[1], v[2], 0, 0, <<>>)

\* Mutant of the Nways arm: the step is wide_deg / n.
Nways_bullets_step_over_n(self, event) ==
    LET step == event.wide_deg \div event.n
    IN  [k \in 1..event.n |->
           NwayBullet(self, event.center_deg - event.wide_deg \div 2 + step * (k - 1),
                      2000)]

\* The Nways arm of Enemy::update: step = wide_deg / (n - 1), one bullet for each
\* i in 0..n-1 at center_deg - wide_deg / 2 + step * i.  With n = 1 the f32
\* step is a division by zero and the heading step * 0 is NaN.
Nways_bullets(self, event) ==
    IF event.n = 1
    THEN <<[Bullet_new(self.x, self.y, 0, 0, 0, 0, <<>>) EXCEPT !.vnan = TRUE]>>
    ELSE LET step == event.wide_deg \div (event.n - 1)
         IN  [k \in 1..event.n |->
                NwayBullet(self, event.center_deg - event.wide_deg \div 2 + step * (k - 1),
                           2000)]

\* The match on event.event_ty of Enemy::update: the bullets pushed.
Enemy_apply(self, event, player) ==
    CASE event.ty = "Nways" -> Nways_bullets(self, event)
      [] event.ty = "AimShot" ->
            LET v == AimVelocity(player, self)
            IN  <<Bullet_new(self.x, self.y, v[1], v[2], 0, 0, <<>>)>>

\* Mutant of Enemy::update: the bullets it fires replace the collection.
Enemy_update_replaces(self, bs, player) ==
    LET frame == (self.frame + 1) % 65536
        moved == [self EXCEPT !.frame = frame,
                              !.x = self.x + self.vx, !.y = self.y + self.vy]
    IN  IF self.next_event = None
        THEN [enemy |-> moved, bullets |-> bs]
        ELSE LET next_event == self.next_event[1]
                 event == self.events[next_event + 1]
             IN  IF event.at # frame
                 THEN [enemy |-> moved, bullets |-> bs]
                 ELSE [enemy |->
                          [moved EXCEPT
                             !.log = Append(@, <<next_event, frame>>),
                             !.next_event =
                                 IF next_event = Len(self.events) - 1
                                 THEN None
                                 ELSE Some(next_event + 1)],
                       bullets |-> Enemy_apply(moved, event, player)]

\* Enemy::update: the enemy afterwards and the bullet collection afterwards.
Enemy_update(self, bs, player) ==
    LET frame == (self.frame + 1) % 65536
        moved == [self EXCEPT !.frame = frame,
                              !.x = self.x + self.vx, !.y = self.y + self.vy]
    IN  IF self.next_event = None
        THEN [enemy |-> moved, bullets |-> bs]
        ELSE LET next_event == self.next_event[1]
                 event == self.events[next_event + 1]
             IN  IF event.at # frame
                 THEN [enemy |-> moved, bullets |-> bs]
                 ELSE [enemy |->
                          [moved EXCEPT
                             !.log = Append(@, <<next_event, frame>>),
                             !.next_event =
                                 IF next_event = Len(self.events) - 1
                                 THEN None
                                 ELSE Some(next_event + 1)],
                       bullets |-> bs \o Enemy_apply(moved, event, player)]

(***************************************************************************)
(* level.rs: Level                                                         *)
(***************************************************************************)
\* for enemy in self.enemies.iter_mut() { enemy.update(&mut self.bullets, &self.player) }
\* from enemy k on: the enemies and the bullets afterwards.
RECURSIVE update_enemies(_, _, _, _)
update_enemies(es, bs, player, k) ==
    IF k > Len(es)
    THEN [enemies |-> es, bullets |-> bs]
    ELSE LET r == Enemy_update(es[k], bs, player)
         IN  update_enemies([es EXCEPT ![k] = r.enemy], r.bullets, player, k + 1)

\* for bullet in self.bullets.iter_mut() { bullet.update() }
update_bullets(bs) == [k \in 1..Len(bs) |-> Bullet_update(bs[k])]

\* self.bullets.retain(|bullet| bullet.in_canvas())
retain_in_canvas(bs) == SelectSeq(bs, Bullet_in_canvas)

\* for bullet in self.bullets.iter() { if self.player.is_collided(bullet) { self.player.hit() } }
\* from bullet k on: the player afterwards.
RECURSIVE collide(_, _, _)
collide(player, bs, k) ==
    IF k > Len(bs)
    THEN player
    ELSE collide(IF Player_is_collided(player, bs[k]) THEN Player_hit(player) ELSE player,
                 bs, k + 1)

\* Level::update up to and including the bullet updates (before the cull).
Level_update_before_cull(level, keys) ==
    LET v  == calc_velocity(keys)
        p1 == Player_update(level.player, v[1], v[2])
        p2 == IF "KeyJ" \in keys THEN Player_bomb(p1) ELSE p1
        e  == update_enemies(level.enemies, level.bullets, p2, 1)
    IN  [player |-> p2, enemies |-> e.enemies, bullets |-> update_bullets(e.bullets)]

\* Mutant of Level::update: the collision tests see the bullets as they were
\* before this tick's enemy and bullet updates and cull.
Level_update_collides_first(level, keys) ==
    LET l == Level_update_before_cull(level, keys)
        kept == retain_in_canvas(l.bullets)
    IN  [player |-> collide(l.player, level.bullets, 1), enemies |-> l.enemies,
         bullets |-> kept]

\* Mutant of Level::update: the bomb key is looked at after the collision tests.
Level_update_bombs_last(level, keys) ==
    LET v  == calc_velocity(keys)
        p1 == Player_update(level.player, v[1], v[2])
        e  == update_enemies(level.enemies, level.bullets, p1, 1)
        kept == retain_in_canvas(update_bullets(e.bullets))
        p2 == collide(p1, kept, 1)
    IN  [player |-> IF "KeyJ" \in keys THEN Player_bomb(p2) ELSE p2,
         enemies |-> e.enemies, bullets |-> kept]

\* Level::update
Level_update(level, keys) ==
    LET l == Level_update_before_cull(level, keys)
        kept == retain_in_canvas(l.bullets)
    IN  [player |-> collide(l.player, kept, 1), enemies |-> l.enemies, bullets |-> kept]

\* Level::new: the enemy and the bullet with their scripts as written there.
Level_new ==
    [player |-> Player_new,
     enemies |-> <<Enemy_new(300000, 50000, 0, 0,
                             <<Nways(120, 4, 90, 90), AimShot(130), AimShot(135),
                               AimShot(140)>>)>>,
     bullets |-> <<Bullet_new(300000, 50000, 0, 4000, 0, 0,
                              <<RotateVel(20, 30), RotateVel(40, 30),
                                SetAcc(60, 50, 20), SetVel(80, -300, 0)>>)>>]

(***************************************************************************)
(* engine.rs: KeyState and GameLoop.  Time is counted in units of 1/6 ms,  *)
(* in which the step 1.0 / 60.0 * 1000.0 ms is the whole number 100.       *)
(***************************************************************************)
FRAME_SIZE == 100

KeyDown(code) == [kind |-> "KeyDown", code |-> code]

KeyUp(code) == [kind |-> "KeyUp", code |-> code]

\* process_input: the queued key events applied to the key state in order.
RECURSIVE process_input(_, _)
process_input(state, events) ==
    IF events = <<>>
    THEN state
    ELSE process_input(IF Head(events).kind = "KeyUp"
                       THEN state \ {Head(events).code}
                       ELSE state \cup {Head(events).code},
                       Tail(events))

\* Mutant of the draw call: it is skipped when the callback ran no update.
Game_draw_when_updated(made) == IF made = <<>> THEN made ELSE Append(made, "draw")

\* game.draw(&renderer): the calls made on the game in this callback, with it.
Game_draw(made) == Append(made, "draw")

\* Mutant of the update loop: what is left in the accumulator is dropped.
RECURSIVE run_updates_drops_carry(_, _, _, _)
run_updates_drops_carry(level, accumulated, keys, made) ==
    IF accumulated > FRAME_SIZE
    THEN run_updates_drops_carry(Level_update(level, keys), accumulated - FRAME_SIZE, keys,
                                 Append(made, "update"))
    ELSE [level |-> level, accumulated_delta |-> 0, calls |-> made]

\* Mutant of the update loop: it runs while the accumulator is >= FRAME_SIZE.
RECURSIVE run_updates_inclusive(_, _, _, _)
run_updates_inclusive(level, accumulated, keys, made) ==
    IF accumulated >= FRAME_SIZE
    THEN run_updates_inclusive(Level_update(level, keys), accumulated - FRAME_SIZE, keys,
                               Append(made, "update"))
    ELSE [level |-> level, accumulated_delta |-> accumulated, calls |-> made]

\* while game_loop.accumulated_delta > FRAME_SIZE { game.update(&keystate);
\* game_loop.accumulated_delta -= FRAME_SIZE; }: the level and the accumulator
\* afterwards, and the calls made on the game.
RECURSIVE run_updates(_, _, _, _)
run_updates(level, accumulated, keys, made) ==
    IF accumulated > FRAME_SIZE
    THEN run_updates(Level_update(level, keys), accumulated - FRAME_SIZE, keys,
                     Append(made, "update"))
    ELSE [level |-> level, accumulated_delta |-> accumulated, calls |-> made]

(***************************************************************************)
(* SpecPlayer: the player state machine under any sequence of stimuli.     *)
(* Move carries a velocity computed by calc_velocity from a key snapshot.  *)
(***************************************************************************)
\* Key snapshots offered to calc_velocity in SpecPlayer.
MoveKeys == {{}, {"KeyW"}, {"KeyA"}, {"KeyS"}, {"KeyD"}}

\* Input bound: the player is only steered outwards from its start point along
\* the four axis directions (left or right on the floor line, up or down on the
\* start column), so that every wall of the play field is reached.
Outwards(sm, v) ==
    /\ (v[1] # 0 => sm.y = FLOOR /\ v[2] = 0)
    /\ (v[2] # 0 => sm.x = 300000 /\ v[1] = 0)
    /\ (v[1] > 0 => sm.x >= 300000)
    /\ (v[1] < 0 => sm.x <= 300000)
    /\ (v[2] > 0 => sm.y >= FLOOR)
    /\ (v[2] < 0 => sm.y <= FLOOR)

\* No stimulus has been delivered yet.
NoHistory ==
    /\ lastEvent = [ty |-> "", vx |-> 0, vy |-> 0]
    /\ since = 0

\* A level without enemies and bullets.
NoLevel ==
    /\ enemies = <<>>
    /\ bullets = <<>>
    /\ culled = <<>>
    /\ panicked = FALSE
    /\ collided = "untested"

\* The game loop has not been started.
NoLoop ==
    /\ keystate = {}
    /\ last_frame = 0
    /\ accumulated_delta = 0
    /\ frame_delta = 0
    /\ calls = <<>>

InitPlayer ==
    /\ state_machine = Player_new
    /\ NoHistory
    /\ NoLevel
    /\ NoLoop

\* One stimulus handed to PlayerStateMachine::transition.
Deliver(event) ==
    LET next == transition(state_machine, event)
    IN  /\ state_machine' = next
        /\ lastEvent' = event
        /\ since' = IF next.tag # state_machine.tag THEN 0
                    ELSE IF event.ty = "Update" /\ next.tag # "Alive"
                         THEN (IF since < MaxSince THEN since + 1 ELSE since)
                         ELSE since
        /\ UNCHANGED <<levelVars, loopVars>>

DeliverMove ==
    \E ks \in MoveKeys :
        LET v == calc_velocity(ks)
        IN  Outwards(state_machine, v) /\ Deliver(Move(v[1], v[2]))

DeliverBomb == Deliver(Bomb)

DeliverHit == Deliver(Hit)

DeliverUpdate == Deliver(Update)

NextPlayer == DeliverMove \/ DeliverBomb \/ DeliverHit \/ DeliverUpdate

SpecPlayer == InitPlayer /\ [][NextPlayer]_vars

\* Key snapshots offered in SpecPlayerFair: standing still or walking right.
FloorKeys == {{}, {"KeyD"}}

DeliverMoveOnFloor ==
    \E ks \in FloorKeys :
        LET v == calc_velocity(ks)
        IN  Deliver(Move(v[1], v[2]))

NextPlayerFloor == DeliverMoveOnFloor \/ DeliverBomb \/ DeliverHit \/ DeliverUpdate

\* The game loop never stops delivering ticks: Update is delivered again and again.
SpecPlayerFair == InitPlayer /\ [][NextPlayerFloor]_vars /\ WF_vars(DeliverUpdate)

(***************************************************************************)
(* Spec: Level under Level::update, one call per tick.  The level is built *)
(* as Level::new builds it (a player, enemies and bullets with scripts);   *)
(* the scripts and the starting bullets are drawn from bounded families.   *)
(***************************************************************************)
\* The largest trigger tick of a drawn script, and the longest drawn script.
MaxAt == 3

MaxLen == 3

\* Level::update is called at most this often on a level that has an enemy.
MaxTicks == 4

\* The trigger ticks of the drawn scripts: every sequence, ordered or not.
ScriptAts == UNION {[1..n -> 0..MaxAt] : n \in 0..MaxLen}

\* A bullet script with the given trigger ticks; the payloads are those of
\* Level::new (RotateVel(30.0), SetAcc(0.05, 0.02), SetVel(-0.3, 0.0)).
BulletScript(ats) ==
    [k \in 1..Len(ats) |->
        CASE k % 3 = 1 -> RotateVel(ats[k], 30)
          [] k % 3 = 2 -> SetAcc(ats[k], 50, 20)
          [] OTHER -> SetVel(ats[k], -300, 0)]

\* An enemy script with the given trigger ticks; the payloads are those of
\* Level::new (Nways {4, 90.0, 90.0}, then AimShot).
EnemyScript(ats) ==
    [k \in 1..Len(ats) |->
        IF k = 1 THEN Nways(ats[k], 4, 90, 90) ELSE AimShot(ats[k])]

\* Level::new with the drawn trigger ticks: the enemy and the bullet start at
\* (300, 50), the bullet with velocity (0, 4).
ScriptedLevel(ats) ==
    [player |-> Player_new,
     enemies |-> <<Enemy_new(300000, 50000, 0, 0, EnemyScript(ats))>>,
     bullets |-> <<Bullet_new(300000, 50000, 0, 4000, 0, 0, BulletScript(ats))>>]

\* A level without enemy whose bullets are about to cross the cull bounds.
EdgeLevel ==
    [player |-> Player_new,
     enemies |-> <<>>,
     bullets |-> <<Bullet_new(549000, 100000, 1000, 0, 0, 0, <<>>),
                   Bullet_new(550000, 100000, 1000, 0, 0, 0, <<>>),
                   Bullet_new(51000, 300000, -1000, 0, 0, 0, <<>>),
                   Bullet_new(300000, 31000, 0, -1000, 0, 0, <<>>),
                   Bullet_new(300000, 569000, 0, 1000, 0, 0, <<>>)>>]

\* A level whose enemy fires an AimShot on the first tick and whose first k
\* bullets come within reach of the player at its start: two closing in from
\* above and below on the first tick, one at rest to the right.
HitLevel(k) ==
    [player |-> Player_new,
     enemies |-> <<Enemy_new(300000, 50000, 0, 0, <<AimShot(1)>>)>>,
     bullets |-> SubSeq(<<Bullet_new(300000, 459000, 0, 4000, 0, 0, <<>>),
                          Bullet_new(300000, 491000, 0, -4000, 0, 0, <<>>),
                          Bullet_new(320000, FLOOR, 0, 0, 0, 0, <<>>)>>, 1, k)]

\* A level whose player has walked to the right wall (KeyD held for 43 ticks),
\* with a bullet on the player that leaves the canvas on the next tick.
WallLevel ==
    [player |-> [Player_new EXCEPT !.frame = 12, !.x = PLAYER_X_MAX, !.vx = PLAYER_SPEED],
     enemies |-> <<Enemy_new(300000, 50000, 0, 0, <<>>)>>,
     bullets |-> <<Bullet_new(545000, FLOOR, 8000, 0, 0, 0, <<>>)>>]

Levels ==
    {ScriptedLevel(ats) : ats \in ScriptAts} \cup {EdgeLevel, WallLevel}
        \cup {HitLevel(k) : k \in 1..3}

\* Key snapshots offered to Level::update.
LevelKeys == {{}, {"KeyJ"}, {"KeyD"}}

Init ==
    /\ NoHistory
    /\ NoLoop
    /\ culled = <<>>
    /\ panicked = FALSE
    /\ collided = "untested"
    /\ \E level \in Levels :
          /\ state_machine = level.player
          /\ enemies = level.enemies
          /\ bullets = level.bullets

\* One call of Level::update with the key snapshot of the tick, which keystate
\* then holds.
LevelUpdate ==
    \E keys \in LevelKeys :
        LET level  == [player |-> state_machine, enemies |-> enemies, bullets |-> bullets]
            before == Level_update_before_cull(level, keys).bullets
            after  == Level_update(level, keys)
            Gone(b) == \A k \in 1..Len(bullets') : bullets'[k] # b
        IN  /\ \A k \in 1..Len(enemies) : enemies[k].frame < MaxTicks
            /\ state_machine' = after.player
            /\ enemies' = after.enemies
            /\ bullets' = after.bullets
            /\ culled' = SelectSeq(before, Gone)
            /\ keystate' = keys
            /\ UNCHANGED <<playerHistory, panicked, collided>>
            /\ UNCHANGED <<last_frame, accumulated_delta, frame_delta, calls>>

Next == LevelUpdate

Spec == Init /\ [][Next]_vars

(***************************************************************************)
(* SpecHeld: Level::update, tick after tick, on a level whose only bullet  *)
(* drifts slowly over the player, with the bomb key held or not.           *)
(***************************************************************************)
\* Level::update is called at most this often in SpecHeld.
MaxHeldTicks == 130

\* Key snapshots offered in SpecHeld.
HeldKeys == {{}, {"KeyJ"}}

InitHeld ==
    /\ NoHistory
    /\ NoLoop
    /\ culled = <<>>
    /\ panicked = FALSE
    /\ collided = "untested"
    /\ state_machine = Player_new
    /\ enemies = <<>>
    /\ bullets = <<Bullet_new(300000, FLOOR - 13500, 0, 100, 0, 0, <<>>)>>

\* One call of Level::update with the key snapshot of the tick, which keystate
\* then holds; the bullet's age counts the ticks. The bullet, 13.5 pixels above
\* the player and 0.1 pixel a tick fast, is on the player from tick 6 on.
HeldLevelUpdate ==
    \E keys \in HeldKeys :
        LET level == [player |-> state_machine, enemies |-> enemies, bullets |-> bullets]
            after == Level_update(level, keys)
        IN  /\ bullets[1].frame < MaxHeldTicks
            /\ state_machine' = after.player
            /\ enemies' = after.enemies
            /\ bullets' = after.bullets
            /\ keystate' = keys
            /\ UNCHANGED <<playerHistory, culled, panicked, collided>>
            /\ UNCHANGED <<last_frame, accumulated_delta, frame_delta, calls>>

NextHeld == HeldLevelUpdate

SpecHeld == InitHeld /\ [][NextHeld]_vars

(***************************************************************************)
(* SpecBullet: one bullet under Bullet::update, called as Level calls it:  *)
(* again and again for as long as the bullet passes in_canvas.             *)
(***************************************************************************)
\* The bullet of Level::new with a drawn script, or a bullet at rest, without
\* script or with one whose first trigger tick is 0.
InitBullet ==
    /\ state_machine = Player_new
    /\ NoHistory
    /\ NoLoop
    /\ enemies = <<>>
    /\ culled = <<>>
    /\ panicked = FALSE
    /\ collided = "untested"
    /\ \/ \E ats \in ScriptAts : bullets = ScriptedLevel(ats).bullets
       \/ bullets = <<Bullet_new(300000, 300000, 0, 0, 0, 0, <<>>)>>
       \/ bullets = <<Bullet_new(300000, 300000, 0, 0, 0, 0, BulletScript(<<0, 1>>))>>

\* bullet.update().  At frame 65535 the u16 increment overflows: it wraps to 0
\* in a build without overflow checks and panics in a build with them.
BulletUpdate ==
    /\ ~panicked
    /\ Bullet_in_canvas(bullets[1])
    /\ \/ /\ bullets' = <<Bullet_update(bullets[1])>>
          /\ UNCHANGED panicked
       \/ /\ bullets[1].frame = 65535
          /\ panicked' = TRUE
          /\ UNCHANGED bullets
    /\ UNCHANGED <<state_machine, playerHistory, enemies, culled, collided, loopVars>>

NextBullet == BulletUpdate

SpecBullet == InitBullet /\ [][NextBullet]_vars

(***************************************************************************)
(* SpecEnemy: one enemy under Enemy::update, called with the bullet        *)
(* collection and the player as Level::update calls it.                    *)
(***************************************************************************)
\* The largest n of a drawn Nways event.
MaxN == 4

\* The wide_deg and center_deg of the drawn Nways events.
Spreads == {0, 30, 60, 90, 180}

Centers == {0, 90, 270}

\* The drawn <<n, wide_deg>>: those whose headings are whole multiples of 15
\* degrees, the angles Sin1000 tabulates.
NwayShapes ==
    {shape \in (1..MaxN) \X Spreads :
        shape[1] = 1 \/ shape[2] % (15 * (shape[1] - 1)) = 0}

\* The enemy of Level::new, at rest or moving, with an Nways event drawn from
\* the shapes above, alone or followed by an AimShot on the next tick.
DrawnEnemies ==
    {Enemy_new(300000, 50000, vx, 0, script) :
        vx \in {0, 1000},
        script \in UNION {{<<Nways(at, shape[1], shape[2], center)>>,
                           <<Nways(at, shape[1], shape[2], center), AimShot(at + 1)>>} :
                          at \in 1..2, shape \in NwayShapes, center \in Centers}}

InitEnemy ==
    /\ state_machine = Player_new
    /\ NoHistory
    /\ NoLoop
    /\ culled = <<>>
    /\ panicked = FALSE
    /\ collided = "untested"
    /\ \E enemy \in DrawnEnemies : enemies = <<enemy>>
    /\ bullets \in {<<>>, Level_new.bullets}

\* enemy.update(&mut self.bullets, &self.player)
EnemyUpdate ==
    LET r == Enemy_update(enemies[1], bullets, state_machine)
    IN  /\ enemies[1].frame < MaxTicks
        /\ enemies' = <<r.enemy>>
        /\ bullets' = r.bullets
        /\ UNCHANGED <<state_machine, playerHistory, culled, panicked, collided, loopVars>>

NextEnemy == EnemyUpdate

SpecEnemy == InitEnemy /\ [][NextEnemy]_vars

(***************************************************************************)
(* SpecCollide: Player::is_collided as a function of the two positions.    *)
(* The player stands where a few ticks of walking right take it; the       *)
(* bullet lies at a drawn offset from it.                                  *)
(***************************************************************************)
\* The largest offset between bullet and player, in pixels, per axis.
MaxOffset == 20

\* The drawn offsets: whole pixels, and the values next to 13 and 16 pixels.
Offsets ==
    {1000 * k : k \in -MaxOffset..MaxOffset}
        \cup {12999, 13001, 15999, 16001, -12999, -13001, -15999, -16001}

\* The player after 0, 1 and 2 ticks of walking right.
PlayerSpots == {300000, 306000, 312000}

InitCollide ==
    /\ NoHistory
    /\ NoLoop
    /\ enemies = <<>>
    /\ culled = <<>>
    /\ panicked = FALSE
    /\ collided = "untested"
    /\ \E px \in PlayerSpots, dx \in Offsets, dy \in Offsets :
          /\ state_machine = [Player_new EXCEPT !.x = px]
          /\ bullets = <<Bullet_new(px + dx, FLOOR + dy, 0, 0, 0, 0, <<>>)>>

\* self.player.is_collided(bullet)
TestCollision ==
    /\ collided = "untested"
    /\ collided' = IF Player_is_collided(state_machine, bullets[1]) THEN "hit" ELSE "miss"
    /\ UNCHANGED <<state_machine, playerHistory, enemies, bullets, culled, panicked, loopVars>>

NextCollide == TestCollision

SpecCollide == InitCollide /\ [][NextCollide]_vars

(***************************************************************************)
(* SpecLoop: the frame callback of GameLoop::start on the level of         *)
(* Level::new, called with increasing timestamps.                          *)
(***************************************************************************)
\* The callbacks stop once the timestamp would pass MaxTime (100 is 1/60 s).
MaxTime == 700

\* The time between two callbacks: 8.3 ms, 16.7 ms, 25 ms or 50 ms.
Deltas == {50, 100, 150, 300}

\* The key events queued between two callbacks.
KeyEventBatches ==
    {<<>>, <<KeyDown("KeyD")>>, <<KeyUp("KeyD")>>, <<KeyDown("KeyD"), KeyUp("KeyD")>>}

\* GameLoop::start up to the first request_animation_frame.
InitLoop ==
    /\ NoHistory
    /\ state_machine = Level_new.player
    /\ enemies = Level_new.enemies
    /\ bullets = Level_new.bullets
    /\ culled = <<>>
    /\ panicked = FALSE
    /\ collided = "untested"
    /\ keystate = {}
    /\ last_frame = 0
    /\ accumulated_delta = 0
    /\ frame_delta = 0
    /\ calls = <<>>

\* The closure passed to create_raf_closure, called with the timestamp perf.
RafCallback ==
    \E delta \in Deltas, events \in KeyEventBatches :
        LET perf  == last_frame + delta
            keys  == process_input(keystate, events)
            level == [player |-> state_machine, enemies |-> enemies, bullets |-> bullets]
            r     == run_updates(level, accumulated_delta + (perf - last_frame), keys, <<>>)
        IN  /\ perf <= MaxTime
            /\ keystate' = keys
            /\ accumulated_delta' = r.accumulated_delta
            /\ state_machine' = r.level.player
            /\ enemies' = r.level.enemies
            /\ bullets' = r.level.bullets
            /\ last_frame' = perf
            /\ frame_delta' = perf - last_frame
            /\ calls' = Game_draw(r.calls)
            /\ UNCHANGED <<playerHistory, culled, panicked, collided>>

NextLoop == RafCallback

SpecLoop == InitLoop /\ [][NextLoop]_vars

(***************************************************************************)
(* Claims about the player state machine                                   *)
(***************************************************************************)
\* C2: Hit turns an Alive player into Reloading with frame 0, position and
\* velocity kept; Hit leaves a Reloading player exactly as it was.
C2_HitAliveThenNoOp ==
    [][lastEvent'.ty = "Hit" =>
        /\ (state_machine.tag = "Alive" =>
              state_machine' = [state_machine EXCEPT !.tag = "Reloading", !.frame = 0])
        /\ (state_machine.tag = "Reloading" => state_machine' = state_machine)]_vars

\* A Hit has just been delivered to a player that was already part-way through
\* its reload (and so had become Reloading by an earlier Hit), while moving.
C2_Witness ==
    /\ lastEvent.ty = "Hit"
    /\ state_machine.tag = "Reloading"
    /\ state_machine.frame > 0
    /\ state_machine.vx # 0

\* C6: Bomb turns an Alive player into Bombing with frame 0; Bomb and Hit leave
\* a Bombing or Reloading player exactly as it was.
C6_BombAliveElseRejected ==
    [][/\ (lastEvent'.ty = "Bomb" /\ state_machine.tag = "Alive" =>
              /\ state_machine'.tag = "Bombing"
              /\ state_machine'.frame = 0)
       /\ (lastEvent'.ty \in {"Bomb", "Hit"}
              /\ state_machine.tag \in {"Bombing", "Reloading"} =>
              state_machine' = state_machine)]_vars

\* A Bomb has just been delivered to a player in the middle of a bomb, away from
\* the floor line it started on.
C6_Witness ==
    /\ lastEvent.ty = "Bomb"
    /\ state_machine.tag = "Bombing"
    /\ state_machine.frame > 0
    /\ state_machine.y # FLOOR

\* C7: Move changes nothing in Reloading; in Alive and Bombing it sets the
\* velocity to the event's (vx, vy) and changes nothing else.
C7_MoveRejectedWhileReloading ==
    [][lastEvent'.ty = "Move" =>
        /\ (state_machine.tag = "Reloading" => state_machine' = state_machine)
        /\ (state_machine.tag \in {"Alive", "Bombing"} =>
              state_machine' = [state_machine EXCEPT !.vx = lastEvent'.vx,
                                                     !.vy = lastEvent'.vy])]_vars

\* A Move with another velocity than the player's has just been delivered to a
\* Reloading player.
C7_Witness ==
    /\ lastEvent.ty = "Move"
    /\ state_machine.tag = "Reloading"
    /\ <<lastEvent.vx, lastEvent.vy>> # <<state_machine.vx, state_machine.vy>>

\* C8: the player's position is inside the play field in every reachable state.
C8_PlayerInField ==
    /\ PLAYER_X_MIN <= state_machine.x /\ state_machine.x <= PLAYER_X_MAX
    /\ PLAYER_Y_MIN <= state_machine.y /\ state_machine.y <= PLAYER_Y_MAX

\* A Reloading player that still carries its velocity has been stopped at a wall.
C8_Witness ==
    /\ state_machine.tag = "Reloading"
    /\ \/ state_machine.x = PLAYER_X_MAX /\ state_machine.vx > 0
       \/ state_machine.y = PLAYER_Y_MIN /\ state_machine.vy < 0

\* The number of Update stimuli a Bombing or Reloading player takes to be Alive.
Duration(tag) == IF tag = "Bombing" THEN BOMB_TIME ELSE RELOAD_TIME

\* C5: a player that entered Bombing (Reloading) keeps that state through its
\* next 59 (119) Update stimuli, becomes Alive with frame 0 on the 60th (120th),
\* leaves the state on no other stimulus, and under continuing ticks always
\* returns to Alive.
C5_TimedReturnToAlive ==
    /\ [](state_machine.tag \in {"Bombing", "Reloading"} =>
            since < Duration(state_machine.tag) /\ state_machine.frame = since)
    /\ [][state_machine.tag \in {"Bombing", "Reloading"} /\ lastEvent'.ty = "Update" =>
            IF since + 1 = Duration(state_machine.tag)
            THEN state_machine'.tag = "Alive" /\ state_machine'.frame = 0
            ELSE state_machine'.tag = state_machine.tag /\ since' = since + 1]_vars
    /\ [][state_machine.tag \in {"Bombing", "Reloading"} /\ lastEvent'.ty # "Update" =>
            state_machine'.tag = state_machine.tag]_vars
    /\ (state_machine.tag = "Bombing" ~> state_machine.tag = "Alive")
    /\ (state_machine.tag = "Reloading" ~> state_machine.tag = "Alive")

\* A Reloading player has received its 119th Update and is still Reloading.
C5_Witness ==
    /\ state_machine.tag = "Reloading"
    /\ since = RELOAD_TIME - 1
    /\ lastEvent.ty = "Update"

(***************************************************************************)
(* Claims about scripted entities and the cull                             *)
(***************************************************************************)
\* The trigger ticks of a script are strictly increasing.
StrictlyIncreasing(events) ==
    \A i \in 1..Len(events) - 1 : events[i].at < events[i + 1].at

\* The frames at which the entity applied its event number i (from 1).
AppliedAt(entity, i) ==
    LET Mine(entry) == entry[1] = i - 1
        mine == SelectSeq(entity.log, Mine)
    IN  [k \in 1..Len(mine) |-> mine[k][2]]

\* Event i of the entity, with trigger tick T, has been applied in the update
\* in which the frame became T, in no other update, and not twice.
AppliedExactlyOnTick(entity, i) ==
    LET T == entity.events[i].at
    IN  AppliedAt(entity, i) = IF entity.frame >= T THEN <<T>> ELSE <<>>

\* The bullets and enemies of the level.
Entities ==
    {bullets[k] : k \in 1..Len(bullets)} \cup {enemies[k] : k \in 1..Len(enemies)}

InCullBounds(b) ==
    /\ ~b.nan
    /\ 50000 <= b.x /\ b.x <= 550000
    /\ 30000 <= b.y /\ b.y <= 570000

\* C9: after a Level::update every bullet left in the collection lies inside
\* 50 <= x <= 550, 30 <= y <= 570, and every bullet the update removed lay outside.
C9_CullKeepsExactlyInBounds ==
    /\ \A k \in 1..Len(bullets) : InCullBounds(bullets[k])
    /\ \A k \in 1..Len(culled) : ~InCullBounds(culled[k])

\* In one Level::update a bullet that moved to (550, 100) was kept and a bullet
\* that moved to (551, 100) was removed.
C9_Witness ==
    /\ \E k \in 1..Len(bullets) :
          bullets[k].frame = 1 /\ bullets[k].x = 550000 /\ bullets[k].y = 100000
    /\ \E k \in 1..Len(culled) :
          culled[k].frame = 1 /\ culled[k].x = 551000 /\ culled[k].y = 100000

\* The event cursor as a number: its index, or the script's length for None.
Cursor(b) == IF b.next_event = None THEN Len(b.events) ELSE b.next_event[1]

\* C10: every call of a bullet's update increases its frame by exactly 1, and
\* the event cursor stays or moves on by one (from the last index to None).
C10_AgeUpByOneCursorForward ==
    [][/\ bullets'[1].frame = bullets[1].frame + 1
       /\ Cursor(bullets'[1]) \in {Cursor(bullets[1]), Cursor(bullets[1]) + 1}]_vars

(***************************************************************************)
(* Claims about the collision test                                         *)
(***************************************************************************)
\* dx * dx + dy * dy < r * r, the products taken only where they are needed.
Within(dx, dy, r) ==
    /\ -r < dx /\ dx < r
    /\ -r < dy /\ dy < r
    /\ dx * dx + dy * dy < r * r

\* The verdict of the collision test is the one a centre distance below r gives.
VerdictIsDistanceBelow(r) ==
    collided # "untested" =>
        (collided = "hit" <=>
            Within(bullets[1].x - state_machine.x, bullets[1].y - state_machine.y, r))

\* C4 as stated: the test is true exactly when the centre distance is below
\* 3 + 10 + 3 = 16.
C4_CollidesBelow16 == VerdictIsDistanceBelow(16000)

\* C4 amended: the test is true exactly when the centre distance is below
\* 10 + 3 = 13.
C4_CollidesBelow13 == VerdictIsDistanceBelow(13000)

\* The test has been made at a centre distance of exactly 13 and found no collision.
C4_Witness ==
    /\ collided = "miss"
    /\ bullets[1].x - state_machine.x = 5000
    /\ bullets[1].y - state_machine.y = 12000

(***************************************************************************)
(* Claims about the game loop                                              *)
(***************************************************************************)
\* The number of game.update calls in a callback's calls.
Updates(made) == Cardinality({k \in 1..Len(made) : made[k] = "update"})

\* C3 as stated: a callback adds delta = perf - last_frame to the accumulator
\* and runs one update per FRAME_SIZE while the accumulator is >= FRAME_SIZE:
\* it ends below FRAME_SIZE, and reaching exactly FRAME_SIZE runs one update.
C3_RunsWhileAtLeastStep ==
    [][LET n == Updates(calls')
           total == accumulated_delta + (last_frame' - last_frame)
       IN  /\ accumulated_delta' = total - n * FRAME_SIZE
           /\ enemies'[1].frame = enemies[1].frame + n
           /\ accumulated_delta' < FRAME_SIZE
           /\ n > 0 => accumulated_delta' >= 0
           /\ total = FRAME_SIZE => n = 1]_vars

\* C3 amended: the loop runs while the accumulator is > FRAME_SIZE: it ends at
\* or below FRAME_SIZE, and reaching exactly FRAME_SIZE runs no update.
C3_RunsWhileAboveStep ==
    [][LET n == Updates(calls')
           total == accumulated_delta + (last_frame' - last_frame)
       IN  /\ accumulated_delta' = total - n * FRAME_SIZE
           /\ enemies'[1].frame = enemies[1].frame + n
           /\ accumulated_delta' <= FRAME_SIZE
           /\ n > 0 => accumulated_delta' > 0
           /\ total = FRAME_SIZE => n = 0]_vars

\* A callback has brought the accumulator from below to exactly FRAME_SIZE and
\* has only drawn.
C3_Witness ==
    /\ accumulated_delta = FRAME_SIZE
    /\ frame_delta > 0
    /\ calls = <<"draw">>

\* C11: in every callback the updates come first, one after another, and draw
\* is called exactly once, after them, also when no update ran; the level has
\* by then taken every update of the callback.
C11_UpdatesThenOneDraw ==
    [][/\ calls' # <<>>
       /\ calls'[Len(calls')] = "draw"
       /\ \A k \in 1..(Len(calls') - 1) : calls'[k] = "update"
       /\ enemies'[1].frame = enemies[1].frame + (Len(calls') - 1)]_vars

\* A callback has run three updates and then drawn.
C11_Witness ==
    /\ Len(calls) = 4
    /\ Updates(calls) = 3
    /\ calls[4] = "draw"

\* C12: a callback leaves accumulator + delta - N * FRAME_SIZE in the accumulator,
\* N being the updates it ran, so the time elapsed since the start is always the
\* updates run so far times FRAME_SIZE plus the accumulator; from an empty
\* accumulator a delta of 50 ms (three steps) runs two updates and leaves one step.
C12_CarriedOverNeverDropped ==
    /\ [](last_frame = enemies[1].frame * FRAME_SIZE + accumulated_delta)
    /\ [][LET n == Updates(calls')
          IN  /\ enemies'[1].frame = enemies[1].frame + n
              /\ accumulated_delta' = accumulated_delta + frame_delta' - n * FRAME_SIZE
              /\ (accumulated_delta = 0 /\ frame_delta' = 3 * FRAME_SIZE =>
                     n = 2 /\ accumulated_delta' = FRAME_SIZE)]_vars

\* The first callback came 50 ms after the start, the accumulator empty: two
\* updates ran and one step is carried over.
C12_Witness ==
    /\ frame_delta = 3 * FRAME_SIZE
    /\ last_frame = frame_delta
    /\ calls = <<"update", "update", "draw">>
    /\ accumulated_delta = FRAME_SIZE
    /\ last_frame = enemies[1].frame * FRAME_SIZE + accumulated_delta

(***************************************************************************)
(* Claims about the enemy                                                  *)
(***************************************************************************)
\* The event the enemy's cursor is on (the enemy has one).
Pending(enemy) == enemy.events[enemy.next_event[1] + 1]

\* This step applied the pending event of the enemy, and it is an Nways event.
NwaysFires ==
    /\ Len(enemies'[1].log) > Len(enemies[1].log)
    /\ Pending(enemies[1]).ty = "Nways"

\* The bullet Bullet::new gives at the enemy's position with a velocity of 2.0 at
\* heading deg.
Shot(enemy, deg) ==
    LET v == Vector_from_deg_and_mag(deg, 2000)
    IN  Bullet_new(enemy.x, enemy.y, v[1], v[2], 0, 0, <<>>)

\* C13: an Nways event with n >= 2 appends exactly n bullets at the enemy's
\* position with headings center - wide / 2 + i * wide / (n - 1), i = 0..n-1;
\* n = 4, wide = 90, center = 90 gives 45, 75, 105 and 135 degrees.
C13_NwaysFansEvenly ==
    [][NwaysFires /\ Pending(enemies[1]).n >= 2 =>
        LET event == Pending(enemies[1])
            old   == Len(bullets)
        IN  /\ Len(bullets') = old + event.n
            /\ \A i \in 0..(event.n - 1) :
                  \E deg \in -360..720 :
                      /\ 2 * (event.n - 1) * (deg - event.center_deg)
                            = event.wide_deg * (2 * i - (event.n - 1))
                      /\ bullets'[old + i + 1] = Shot(enemies'[1], deg)
            /\ (event.n = 4 /\ event.wide_deg = 90 /\ event.center_deg = 90 =>
                  /\ SubSeq(bullets', old + 1, old + 4)
                        = <<Shot(enemies'[1], 45), Shot(enemies'[1], 75),
                            Shot(enemies'[1], 105), Shot(enemies'[1], 135)>>
                  /\ <<bullets'[old + 1].vx, bullets'[old + 1].vy>> = <<1414, 1414>>
                  /\ <<bullets'[old + 2].vx, bullets'[old + 2].vy>> = <<518, 1932>>)]_vars

\* A moving enemy has just fired Nways {4, 90, 90} into a collection that held
\* a bullet: four bullets were appended where the enemy now is.
C13_Witness ==
    /\ Len(enemies[1].log) = 1
    /\ enemies[1].frame = enemies[1].events[1].at
    /\ enemies[1].vx # 0
    /\ enemies[1].events[1].n = 4
    /\ enemies[1].events[1].wide_deg = 90
    /\ enemies[1].events[1].center_deg = 90
    /\ Len(bullets) = 5
    /\ bullets[5] = Shot(enemies[1], 135)

\* C14: an Nways event with n = 1 appends exactly one bullet, heading
\* center_deg, whatever wide_deg is.
C14_SingleShotAtCenter ==
    [][NwaysFires /\ Pending(enemies[1]).n = 1 =>
        /\ Len(bullets') = Len(bullets) + 1
        /\ bullets'[Len(bullets') ] = Shot(enemies'[1], Pending(enemies[1]).center_deg)]_vars

\* C20: Enemy::update leaves every bullet that was in the collection in place
\* and unchanged; whatever it adds comes after them.
C20_EnemyOnlyAppends ==
    [][/\ Len(bullets') >= Len(bullets)
       /\ SubSeq(bullets', 1, Len(bullets)) = bullets]_vars

\* The enemy has fired twice into a collection that held a bullet, which is
\* still the first one and as it was.
C20_Witness ==
    /\ Len(enemies[1].log) = 2
    /\ Len(bullets) >= 3
    /\ bullets[1] = Level_new.bullets[1]

(***************************************************************************)
(* Claims about the tick                                                   *)
(***************************************************************************)
\* C15: while the player stays Alive each Update advances the frame by one on a
\* cycle of NORMAL_LOOP = 30 ticks: 30 Updates after frame 0 the frame is 0 again.
C15_AliveFrameCycleOf30 ==
    [][state_machine.tag = "Alive" /\ lastEvent'.ty = "Update" =>
          /\ state_machine'.tag = "Alive"
          /\ state_machine'.frame = (state_machine.frame + 1) % NORMAL_LOOP]_vars

\* The position PlayerContext::update gives from (x, y) with velocity (vx, vy).
Integrated(sm, vx, vy) ==
    LET x0 == sm.x + vx
        y0 == sm.y + vy
    IN  <<IF x0 < 50000 THEN 50000 ELSE IF x0 > 550000 THEN 550000 ELSE x0,
          IF y0 < 30000 THEN 30000 ELSE IF y0 > 570000 THEN 570000 ELSE y0>>

\* C16: in each Level::update the player gets Move with the velocity of this
\* tick's keys before Update, so a player that accepts Move (Alive or Bombing)
\* is moved in this tick by the velocity of this tick's keys.
C16_MoveBeforeUpdate ==
    [][state_machine.tag \in {"Alive", "Bombing"} =>
          LET v == calc_velocity(keystate')
          IN  <<state_machine'.x, state_machine'.y>> = Integrated(state_machine, v[1], v[2])]_vars

\* The bullets the enemy's pending event appends when it is applied.
Appended(enemy) == IF Pending(enemy).ty = "Nways" THEN Pending(enemy).n ELSE 1

\* The bullets this tick's enemy update appended (a level has at most one enemy).
Spawned ==
    IF Len(enemies) = 1 /\ Len(enemies'[1].log) > Len(enemies[1].log)
    THEN Appended(enemies[1])
    ELSE 0

\* The bullets of the collection that overlap the player.
Overlapping(player, bs) == {k \in 1..Len(bs) : Player_is_collided(player, bs[k])}

\* C17: in one Level::update the player is updated and bombs first, then the
\* enemies are updated, then every bullet, then the cull, then the collision
\* tests: a bullet appended in the tick has been updated and cull-tested in it,
\* an AimShot aims at the player where this tick's update put it, a held bomb
\* key turns an Alive player Bombing before any test, and the player is hit
\* exactly by bullets that survived the cull, where this tick's update put them.
C17_PhasesInOrder ==
    [][/\ Len(bullets') + Len(culled') = Len(bullets) + Spawned
       /\ \A k \in 1..Len(bullets') : bullets'[k].frame # 0
       /\ \A k \in 1..Len(culled') : culled'[k].frame # 0
       /\ (Spawned > 0 /\ culled' = <<>> =>
              \A k \in (Len(bullets') - Spawned + 1)..Len(bullets') :
                  /\ bullets'[k].frame = 1
                  /\ bullets'[k].x = enemies'[1].x + bullets'[k].vx
                  /\ bullets'[k].y = enemies'[1].y + bullets'[k].vy
                  /\ (Pending(enemies[1]).ty = "AimShot" =>
                         <<bullets'[k].vx, bullets'[k].vy>>
                             = AimVelocity(state_machine', enemies'[1])))
       /\ ("KeyJ" \in keystate' /\ state_machine.tag = "Alive" =>
              state_machine'.tag = "Bombing")
       /\ (state_machine'.tag = "Alive" => Overlapping(state_machine', bullets') = {})
       /\ (state_machine'.tag = "Reloading" /\ state_machine'.frame = 0 =>
              Overlapping(state_machine', bullets') # {})]_vars

\* In one tick the enemy fired an AimShot, which has been updated once, and a
\* bullet that came within reach only by this tick's update hit the player.
C17_Witness ==
    /\ Len(enemies) = 1
    /\ enemies[1].frame = 1
    /\ enemies[1].log = <<<<0, 1>>>>
    /\ bullets[Len(bullets)] = [Bullet_new(300000, 51000, 0, 1000, 0, 0, <<>>) EXCEPT !.frame = 1]
    /\ bullets[1].y = 463000
    /\ state_machine.tag = "Reloading"
    /\ state_machine.frame = 0

\* C18: when one or more surviving bullets overlap an Alive player that does not
\* bomb, the tick ends with the player Reloading at frame 0, where and as fast
\* as its update left it: the state one overlapping bullet gives.
C18_HitsInOneTickCountOnce ==
    [][/\ state_machine.tag = "Alive"
       /\ "KeyJ" \notin keystate'
       /\ Overlapping(state_machine', bullets') # {}
       => LET v == calc_velocity(keystate')
              at == Integrated(state_machine, state_machine.vx, state_machine.vy)
          IN  state_machine' = [tag |-> "Reloading", frame |-> 0,
                                x |-> at[1], y |-> at[2], vx |-> v[1], vy |-> v[2]]]_vars

\* A tick has just ended with two surviving bullets on the player, which is
\* Reloading at frame 0.
C18_Witness ==
    /\ Cardinality(Overlapping(state_machine, bullets)) >= 2
    /\ state_machine.tag = "Reloading"
    /\ state_machine.frame = 0
    /\ Len(enemies) = 1
    /\ enemies[1].frame = 1

\* C19: in the update that brings a bullet's age to the trigger tick of its
\* pending event, the velocity and the position are first advanced with the
\* acceleration and velocity from before the event, and the event is applied to
\* the result; the position of that tick does not depend on the event.
C19_EventAfterIntegration ==
    [][Len(bullets'[1].log) > Len(bullets[1].log) =>
          LET b     == bullets[1]
              event == b.events[b.next_event[1] + 1]
              vx0   == b.vx + b.ax
              vy0   == b.vy + b.ay
              vel   == <<bullets'[1].vx, bullets'[1].vy>>
              acc   == <<bullets'[1].ax, bullets'[1].ay>>
          IN  /\ bullets'[1].frame = event.at
              /\ bullets'[1].x = b.x + vx0
              /\ bullets'[1].y = b.y + vy0
              /\ (event.ty = "RotateVel" =>
                     vel = Vector_rotate(vx0, vy0, event.deg) /\ acc = <<b.ax, b.ay>>)
              /\ (event.ty = "SetVel" =>
                     vel = <<event.vx, event.vy>> /\ acc = <<b.ax, b.ay>>)
              /\ (event.ty = "SetAcc" =>
                     vel = <<vx0, vy0>> /\ acc = <<event.vx, event.vy>>)]_vars

\* The bullet of Level::new with its events on ticks 1, 2 and 3 has had all
\* three applied: it was moved three times by the velocity of before each event.
C19_Witness ==
    /\ Len(bullets) = 1
    /\ bullets[1].frame = 3
    /\ Len(bullets[1].log) = 3
    /\ <<bullets[1].x, bullets[1].y>> = <<296050, 60948>>
    /\ <<bullets[1].vx, bullets[1].vy>> = <<-300, 0>>

\* C21: an event whose trigger tick is not above the entity's age is never
\* applied: the cursor stays on it for good and the script applies nothing more.
C21_MissedEventBlocksForGood ==
    [][/\ bullets[1].next_event # None
       /\ bullets[1].events[bullets[1].next_event[1] + 1].at <= bullets[1].frame
       => /\ bullets'[1].next_event = bullets[1].next_event
          /\ bullets'[1].log = bullets[1].log]_vars

(***************************************************************************)
(* Claims about bombs and hits                                             *)
(***************************************************************************)
\* C22: a player that is Bombing when a tick starts and has the bomb key held in
\* that tick is Bombing when it ends, with a bullet on it or not: it goes on
\* with its bomb, or, the bomb expiring in this tick, starts a new one at frame 0.
C22_HeldBombNeverReloads ==
    [][state_machine.tag = "Bombing" /\ "KeyJ" \in keystate'
       => /\ state_machine'.tag = "Bombing"
          /\ state_machine'.frame =
                IF state_machine.frame = BOMB_TIME - 1 THEN 0 ELSE state_machine.frame + 1]_vars

\* The bomb key was held from the first tick on: the bomb of tick 1 expired in
\* tick 61 and the player, a bullet on it, is Bombing again.
C22_Witness ==
    /\ bullets[1].frame = BOMB_TIME + 1
    /\ "KeyJ" \in keystate
    /\ state_machine.tag = "Bombing"
    /\ state_machine.frame = 0
    /\ Overlapping(state_machine, bullets) # {}

\* The player's update of this tick leaves (or makes) it Alive.
AliveAfterUpdate ==
    \/ state_machine.tag = "Alive"
    \/ state_machine.tag = "Bombing" /\ state_machine.frame = BOMB_TIME - 1
    \/ state_machine.tag = "Reloading" /\ state_machine.frame = RELOAD_TIME - 1

\* C23: a player that is Alive after its update, with the bomb key held and a
\* surviving bullet on it, ends the tick Bombing at frame 0, not Reloading.
C23_BombBeforeHit ==
    [][AliveAfterUpdate /\ "KeyJ" \in keystate'
          /\ Overlapping(state_machine', bullets') # {}
       => /\ state_machine'.tag = "Bombing"
          /\ state_machine'.frame = 0]_vars

\* Tick 6, the first with the bullet on the player: the player, Alive until
\* then, has the bomb key held and is Bombing at frame 0.
C23_Witness ==
    /\ bullets[1].frame = 6
    /\ "KeyJ" \in keystate
    /\ state_machine.tag = "Bombing"
    /\ state_machine.frame = 0
    /\ Overlapping(state_machine, bullets) # {}

\* C24: a Reloading player keeps its velocity whatever stimulus it gets, an
\* Update moves it by that velocity (clamped to the play field), and no other
\* stimulus moves it.
C24_ReloadingDriftsOn ==
    [][state_machine.tag = "Reloading"
       => /\ state_machine'.vx = state_machine.vx
          /\ state_machine'.vy = state_machine.vy
          /\ <<state_machine'.x, state_machine'.y>> =
                IF lastEvent'.ty = "Update"
                THEN Integrated(state_machine, state_machine.vx, state_machine.vy)
                ELSE <<state_machine.x, state_machine.y>>]_vars

\* A player hit while moving sideways has drifted for two Updates of its reload
\* and is neither on its start column nor at a wall.
C24_Witness ==
    /\ state_machine.tag = "Reloading"
    /\ lastEvent.ty = "Update"
    /\ since >= 2
    /\ state_machine.vx # 0
    /\ state_machine.x \notin {PLAYER_X_MIN, 300000, PLAYER_X_MAX}

\* C25: the frame is at most 30 in Alive, at most 59 in Bombing and at most 119
\* in Reloading, so that frame + 1 fits 8 bits and RELOAD_TIME - frame is positive.
C25_FrameBoundedByState ==
    /\ state_machine.tag = "Alive" => state_machine.frame <= NORMAL_LOOP
    /\ state_machine.tag = "Bombing" => state_machine.frame <= BOMB_TIME - 1
    /\ state_machine.tag = "Reloading" =>
          /\ state_machine.frame <= RELOAD_TIME - 1
          /\ RELOAD_TIME - state_machine.frame > 0

\* The last Update of a reload but one: the frame is at its largest.
C25_Witness ==
    /\ state_machine.tag = "Reloading"
    /\ state_machine.frame = RELOAD_TIME - 1
    /\ lastEvent.ty = "Update"

====
